---- MODULE Spec2Model ----
(***************************************************************************)
(* Model of robustness/main.py: the three entry points of the command-line *)
(* tool, setup_args, setup_store_with_metadata and main.                   *)
(*                                                                         *)
(* Python values are modelled by their literals as strings ("0", "1",      *)
(* "ckpt.pt"); None is the string "None".  An arguments object is a        *)
(* function from field name to value; a field that is unset reads None     *)
(* (cox.utils.Parameters returns None for a missing key).                  *)
(*                                                                         *)
(* Three specifications share the variables:                               *)
(*   SpecArgs   one call of setup_args on an arbitrary arguments object    *)
(*   SpecMain   one call of main on an arbitrary arguments object          *)
(*   SpecStore  up to MaxInvocations calls of setup_store_with_metadata    *)
(***************************************************************************)
EXTENDS Integers, Sequences, FiniteSets, TLC

VARIABLES
    args,           \* the arguments object being worked on
    entryArgs,      \* the arguments object as it was on entry
    cfgFile,        \* content of the JSON config file: key -> value or Absent
    pc,             \* position in the function being run
    err,            \* the exception that ended the call, or None
    errMsg,         \* the message of that exception (sequence of text pieces)
    applied,        \* option groups handed to check_and_fill_args, in order
    \* ---- main
    fixtureOK,      \* the data path holds a well-formed dataset
    infoDirPresent, \* the hard-coded BREEDS metadata directory exists
    dataset,        \* the dataset object built, or None
    loadersBuilt,   \* make_loaders has been called
    restored,       \* [model, checkpoint] returned by make_and_restore_model
    model,          \* local variable model
    checkpoint,     \* local variable checkpoint
    evalCalls,      \* calls of eval_model, in order: [model, result]
    trainCalls,     \* calls of train_model, in order: [model, checkpoint, result]
    ret,            \* value returned by main, or None
    \* ---- setup_store_with_metadata
    gitOutcome,     \* what the revision lookup of this invocation does
    stores,         \* the stores on disk: <<out_dir, exp_name>> -> table -> [schema, rows]
    invocations,    \* number of invocations started
    effects         \* what the current invocation did: sequence of events

vars == <<args, entryArgs, cfgFile, pc, err, errMsg, applied,
          fixtureOK, infoDirPresent, dataset, loadersBuilt, restored, model,
          checkpoint, evalCalls, trainCalls, ret,
          gitOutcome, stores, invocations, effects>>

argsVars  == <<args, entryArgs, cfgFile, applied>>
mainVars  == <<fixtureOK, infoDirPresent, dataset, loadersBuilt, restored,
               model, checkpoint, evalCalls, trainCalls, ret>>
storeVars == <<gitOutcome, stores, invocations, effects>>

---------------------------------------------------------------------------
(* Python values *)

None == "None"

\* Python truthiness of the literals used here (if x: ...).
Truthy(v) == v \notin {None, "0", "False", ""}

---------------------------------------------------------------------------
(* robustness.defaults: option groups and their defaults *)

Absent == "<absent>"       \* a key the config file does not have
REQ == "REQUIRED"          \* defaults.REQ: no default, the field must be given

CONFIG_ARGS       == {"config_path", "eval_only", "adv_eval", "out_dir", "exp_name"}
TRAINING_ARGS     == {"epochs", "adv_train"}
PGD_ARGS          == {"eps", "use_best"}
MODEL_LOADER_ARGS == {"dataset", "resume", "resume_optimizer"}

GroupNames == {"CONFIG", "TRAINING", "PGD", "MODEL_LOADER"}

GroupFields(g) ==
    CASE g = "CONFIG"       -> CONFIG_ARGS
      [] g = "TRAINING"     -> TRAINING_ARGS
      [] g = "PGD"          -> PGD_ARGS
      [] g = "MODEL_LOADER" -> MODEL_LOADER_ARGS

GroupedFields == UNION {GroupFields(g) : g \in GroupNames}

\* The parser's own options (main.py lines 35-45) belong to no group.
ParserFields == {"task"}

Fields == GroupedFields \cup ParserFields

GroupOf(f) == CHOOSE g \in GroupNames : f \in GroupFields(g)

\* defaults.DATASETS: dataset name -> dataset class.
DATASETS == {"cifar", "imagenet"}

\* The default of a field for a dataset class: a value, None (no default:
\* the field is left unset) or REQ.  "epochs" varies by dataset.
ArgDefault(f, ds) ==
    CASE f = "eval_only"        -> "0"
      [] f = "epochs"           -> IF ds = "imagenet" THEN "200" ELSE "150"
      [] f = "adv_train"        -> REQ
      [] f = "eps"              -> REQ
      [] f = "use_best"         -> "1"
      [] f = "resume_optimizer" -> "0"
      [] f = "dataset"          -> REQ
      [] OTHER                  -> None

\* helpers.has_attr: the field is present and not None.
has_attr(a, f) == a[f] # None

\* check_and_fill_args raises when a required field of the group is unset.
MissingRequired(a, g, ds) ==
    \E f \in GroupFields(g) : ~has_attr(a, f) /\ ArgDefault(f, ds) = REQ

\* check_and_fill_args(args, arg_list, ds_class): every unset field of the
\* group takes its default; a field that is set is never touched.
check_and_fill_args(a, g, ds) ==
    [f \in DOMAIN a |->
        IF f \in GroupFields(g) /\ ~has_attr(a, f) /\ ArgDefault(f, ds) # REQ
        THEN ArgDefault(f, ds)
        ELSE a[f]]

\* cox.utils.override_json(args, path): the file's keys, overridden by every
\* field of args that is not None.  A key of neither reads None.
override_json(a, cfg) ==
    [f \in DOMAIN a |->
        IF a[f] # None THEN a[f]
        ELSE IF cfg[f] # Absent THEN cfg[f]
        ELSE None]

---------------------------------------------------------------------------
(* setup_args (main.py lines 115-137) *)

\* line 122: if args.config_path:
UseConfig_Never(a) == FALSE
UseConfig(a) == Truthy(a["config_path"])

\* line 128: if not args.eval_only:
RunTrainingGroup_Always(a) == TRUE
RunTrainingGroup(a) == ~Truthy(a["eval_only"])

\* line 131: if args.adv_train or args.adv_eval:
RunPGDGroup(a) == Truthy(a["adv_train"]) \/ Truthy(a["adv_eval"])

\* lines 135-136: if args.eval_only: assert args.resume is not None
ResumeCheckFails_Dropped(a) == FALSE
ResumeCheckFails(a) == Truthy(a["eval_only"]) /\ a["resume"] = None

\* No key of the config file.
EmptyCfg == [f \in Fields |-> Absent]

\* The config files enumerated: any of three keys, one of them possibly null.
CfgFiles ==
    {[f \in Fields |->
        CASE f = "eval_only" -> e
          [] f = "epochs"    -> p
          [] f = "resume"    -> r
          [] OTHER           -> Absent] :
     e \in {Absent, "1"}, p \in {Absent, "9", None}, r \in {Absent, "cfg.pt"}}

\* The arguments objects enumerated on entry to setup_args.
EntryArgs ==
    {[config_path |-> cp, eval_only |-> eo, adv_eval |-> ae, out_dir |-> "out",
      exp_name |-> "exp", epochs |-> ep, adv_train |-> at, eps |-> es,
      use_best |-> ub, dataset |-> ds, resume |-> rs, resume_optimizer |-> ro,
      task |-> "breeds"] :
     cp \in {None, "cfg.json"}, eo \in {None, "0", "1"}, ae \in {None, "1"},
     ep \in {None, "5"}, at \in {None, "0", "1"}, es \in {None, "0.5"},
     ub \in {None, "0"}, ds \in {None, "cifar", "imagenet"},
     rs \in {None, "ckpt.pt"}, ro \in {None, "1"}}

IdleMain ==
    /\ fixtureOK = TRUE
    /\ infoDirPresent = TRUE
    /\ dataset = None
    /\ loadersBuilt = FALSE
    /\ restored = None
    /\ model = None
    /\ checkpoint = None
    /\ evalCalls = <<>>
    /\ trainCalls = <<>>
    /\ ret = None

IdleStore ==
    /\ gitOutcome = None
    /\ stores = <<>>
    /\ invocations = 0
    /\ effects = <<>>

InitArgs ==
    /\ args \in EntryArgs
    /\ entryArgs = args
    /\ cfgFile \in (IF Truthy(args["config_path"]) THEN CfgFiles ELSE {EmptyCfg})
    /\ pc = "overlay"
    /\ err = None
    /\ errMsg = <<>>
    /\ applied = <<>>
    /\ IdleMain
    /\ IdleStore

Raise(kind, msg) ==
    /\ pc' = "raised"
    /\ err' = kind
    /\ errMsg' = msg

\* lines 122-123
SA_Overlay ==
    /\ pc = "overlay"
    /\ args' = IF UseConfig(args) THEN override_json(args, cfgFile) ELSE args
    /\ pc' = "dataset"
    /\ UNCHANGED <<entryArgs, cfgFile, err, errMsg, applied, mainVars, storeVars>>

\* One call args = check_and_fill_args(args, <group>, ds_class), followed by
\* the position `next`.
FillGroup(g, next) ==
    /\ applied' = Append(applied, g)
    /\ IF MissingRequired(args, g, args["dataset"])
       THEN /\ Raise("ValueError", <<"required argument missing">>)
            /\ UNCHANGED args
       ELSE /\ args' = check_and_fill_args(args, g, args["dataset"])
            /\ pc' = next
            /\ UNCHANGED <<err, errMsg>>

\* lines 125-126: ds_class = DATASETS[args.dataset], then the CONFIG group
SA_Config ==
    /\ pc = "dataset"
    /\ IF args["dataset"] \notin DATASETS
       THEN /\ Raise("KeyError", <<args["dataset"]>>)
            /\ UNCHANGED <<args, applied>>
       ELSE FillGroup("CONFIG", "training")
    /\ UNCHANGED <<entryArgs, cfgFile, mainVars, storeVars>>

\* lines 128-129
SA_Training ==
    /\ pc = "training"
    /\ IF RunTrainingGroup(args)
       THEN FillGroup("TRAINING", "pgd")
       ELSE /\ pc' = "pgd"
            /\ UNCHANGED <<args, applied, err, errMsg>>
    /\ UNCHANGED <<entryArgs, cfgFile, mainVars, storeVars>>

\* lines 131-132
SA_PGD ==
    /\ pc = "pgd"
    /\ IF RunPGDGroup(args)
       THEN FillGroup("PGD", "loader")
       ELSE /\ pc' = "loader"
            /\ UNCHANGED <<args, applied, err, errMsg>>
    /\ UNCHANGED <<entryArgs, cfgFile, mainVars, storeVars>>

\* line 134
SA_ModelLoader ==
    /\ pc = "loader"
    /\ FillGroup("MODEL_LOADER", "check")
    /\ UNCHANGED <<entryArgs, cfgFile, mainVars, storeVars>>

\* lines 135-137
SA_CheckReturn ==
    /\ pc = "check"
    /\ IF ResumeCheckFails(args)
       THEN Raise("AssertionError", <<"Must provide a resume path if only evaluating">>)
       ELSE /\ pc' = "returned"
            /\ UNCHANGED <<err, errMsg>>
    /\ UNCHANGED <<argsVars, mainVars, storeVars>>

NextArgs ==
    \/ SA_Overlay
    \/ SA_Config
    \/ SA_Training
    \/ SA_PGD
    \/ SA_ModelLoader
    \/ SA_CheckReturn

SpecArgs == InitArgs /\ [][NextArgs]_vars

---------------------------------------------------------------------------
(* main (main.py lines 48-113) *)

\* Largest number of multi-device wrappers around a restored model.
MaxWrap == 2

\* lines 63 and 83: the task names main has a branch for
SupportedTasks == {"breeds", "binary_mnist"}

\* line 64-65: PROJ_DIR + 'data/imagenet_class_hierarchy/modified'
INFO_DIR == "/home/gridsan/krisgrg/superurop/adv-rot-equiv/data/imagenet_class_hierarchy/modified"

\* A model is the chain of objects reached through .module, outermost first:
\* n DataParallel wrappers around the network.
Wrapped(n) == [i \in 1..(n + 1) |-> IF i <= n THEN "DataParallel" ELSE "net"]

Models == {Wrapped(n) : n \in 0..MaxWrap}

\* make_and_restore_model(arch, dataset, resume_path): no checkpoint without
\* a resume path; a checkpoint carries weights and possibly optimizer state.
Checkpoints(resume_path) ==
    IF resume_path = None THEN {None}
    ELSE {"ckpt[weights]", "ckpt[weights,optimizer]"}

EvalResults == {"eval_result_a", "eval_result_b"}
TrainResults == {"trained_model_a", "trained_model_b"}

\* lines 103-104: if 'module' in dir(model): model = model.module
Unwrap_Skipped(m) == m
Unwrap(m) == IF Len(m) > 1 THEN Tail(m) ELSE m

\* line 107: if args.eval_only:
TakesEvalBranch_Never(a) == FALSE
TakesEvalBranch(a) == Truthy(a["eval_only"])

\* line 110: if not args.resume_optimizer: checkpoint = None
TrainCheckpoint_Kept(a, ckpt) == ckpt
TrainCheckpoint(a, ckpt) == IF ~Truthy(a["resume_optimizer"]) THEN None ELSE ckpt

\* line 88: 'No task {args.task}.' is a plain string literal (no f prefix),
\* so the braces are text and the task value is not substituted.
NotImplementedMessage(a) == <<"No task ", "{args.task}", ".">>

\* The arguments objects enumerated on entry to main: resolved objects, the
\* task possibly one main has no branch for.
MainArgs ==
    {[config_path |-> None, eval_only |-> eo, adv_eval |-> "0", out_dir |-> "out",
      exp_name |-> "exp", epochs |-> "150", adv_train |-> "0", eps |-> None,
      use_best |-> None, dataset |-> "cifar", resume |-> rs,
      resume_optimizer |-> ro, task |-> t] :
     eo \in {"0", "1"}, rs \in {None, "ckpt.pt"}, ro \in {"0", "1"},
     t \in SupportedTasks \cup {"cifar10"}}

InitMain ==
    /\ args \in MainArgs
    /\ entryArgs = args
    /\ cfgFile = EmptyCfg
    /\ pc = "dataset"
    /\ err = None
    /\ errMsg = <<>>
    /\ applied = <<>>
    /\ fixtureOK \in BOOLEAN
    /\ infoDirPresent \in BOOLEAN
    /\ dataset = None
    /\ loadersBuilt = FALSE
    /\ restored = None
    /\ model = None
    /\ checkpoint = None
    /\ evalCalls = <<>>
    /\ trainCalls = <<>>
    /\ ret = None
    /\ IdleStore

\* lines 54-88: data path, transforms, then the dataset of the task.  The
\* BREEDS generator reads the class hierarchy from INFO_DIR; the dataset
\* classes read the data path.
M_Dataset ==
    /\ pc = "dataset"
    /\ IF args["task"] = "breeds"
       THEN IF ~infoDirPresent
            THEN Raise("FileNotFoundError", <<INFO_DIR>>) /\ UNCHANGED dataset
            ELSE IF ~fixtureOK
            THEN Raise("DatasetError", <<"data">>) /\ UNCHANGED dataset
            ELSE /\ dataset' = "CustomImageNet"
                 /\ pc' = "loaders"
                 /\ UNCHANGED <<err, errMsg>>
       ELSE IF args["task"] = "binary_mnist"
       THEN IF ~fixtureOK
            THEN Raise("DatasetError", <<"data">>) /\ UNCHANGED dataset
            ELSE /\ dataset' = "BinaryMNIST"
                 /\ pc' = "loaders"
                 /\ UNCHANGED <<err, errMsg>>
       ELSE Raise("NotImplementedError", NotImplementedMessage(args))
            /\ UNCHANGED dataset
    /\ UNCHANGED <<argsVars, fixtureOK, infoDirPresent, loadersBuilt, restored,
                   model, checkpoint, evalCalls, trainCalls, ret, storeVars>>

\* lines 90-97
M_Loaders ==
    /\ pc = "loaders"
    /\ loadersBuilt' = TRUE
    /\ pc' = "restore"
    /\ UNCHANGED <<argsVars, err, errMsg, fixtureOK, infoDirPresent, dataset,
                   restored, model, checkpoint, evalCalls, trainCalls, ret,
                   storeVars>>

\* lines 100-104
M_Restore ==
    /\ pc = "restore"
    /\ \E m \in Models, c \in Checkpoints(args["resume"]) :
          /\ restored' = [model |-> m, checkpoint |-> c]
          /\ model' = Unwrap(m)
          /\ checkpoint' = c
    /\ pc' = "dispatch"
    /\ UNCHANGED <<argsVars, err, errMsg, fixtureOK, infoDirPresent, dataset,
                   loadersBuilt, evalCalls, trainCalls, ret, storeVars>>

\* lines 106-108: return eval_model(args, model, val_loader, store=store)
M_Eval ==
    /\ pc = "dispatch"
    /\ TakesEvalBranch(args)
    /\ \E r \in EvalResults :
          /\ evalCalls' = Append(evalCalls, [model |-> model, result |-> r])
          /\ ret' = r
    /\ pc' = "returned"
    /\ UNCHANGED <<argsVars, err, errMsg, fixtureOK, infoDirPresent, dataset,
                   loadersBuilt, restored, model, checkpoint, trainCalls,
                   storeVars>>

\* lines 110-113
M_Train ==
    /\ pc = "dispatch"
    /\ ~TakesEvalBranch(args)
    /\ checkpoint' = TrainCheckpoint(args, checkpoint)
    /\ \E r \in TrainResults :
          /\ trainCalls' = Append(trainCalls,
                [model |-> model, checkpoint |-> checkpoint', result |-> r])
          /\ model' = r
          /\ ret' = r
    /\ pc' = "returned"
    /\ UNCHANGED <<argsVars, err, errMsg, fixtureOK, infoDirPresent, dataset,
                   loadersBuilt, restored, evalCalls, storeVars>>

NextMain ==
    \/ M_Dataset
    \/ M_Loaders
    \/ M_Restore
    \/ M_Eval
    \/ M_Train

SpecMain == InitMain /\ [][NextMain]_vars

---------------------------------------------------------------------------
(* Claims about main, checked under SpecMain *)

\* C2: a returning evaluation-only call made exactly one eval_model call and
\* returns its result; a returning training call made exactly one
\* train_model call and returns its model; the other routine is never
\* called in either kind of run.
C2_Dispatch ==
    /\ Truthy(args["eval_only"]) => trainCalls = <<>> /\ Len(evalCalls) <= 1
    /\ ~Truthy(args["eval_only"]) => evalCalls = <<>> /\ Len(trainCalls) <= 1
    /\ pc = "returned" =>
          IF Truthy(args["eval_only"])
          THEN Len(evalCalls) = 1 /\ ret = evalCalls[1].result
          ELSE Len(trainCalls) = 1 /\ ret = trainCalls[1].result

\* C2 witness: an evaluation-only run on a supported task returned the
\* result of its one eval_model call.
C2_Witness ==
    /\ pc = "returned"
    /\ args["task"] = "binary_mnist"
    /\ Truthy(args["eval_only"])
    /\ args["resume"] = "ckpt.pt"
    /\ Len(evalCalls) = 1
    /\ ret = "eval_result_b"

\* C3: the checkpoint handed to train_model is None when resume_optimizer
\* is false, and the checkpoint make_and_restore_model returned when it is
\* true.
C3_CheckpointPassed ==
    \A i \in 1..Len(trainCalls) :
        trainCalls[i].checkpoint =
            IF Truthy(args["resume_optimizer"]) THEN restored.checkpoint ELSE None

\* C3 witness: a checkpoint with optimizer state was restored and, with
\* resume_optimizer false, train_model was handed None.
C3_Witness ==
    /\ Len(trainCalls) = 1
    /\ ~Truthy(args["resume_optimizer"])
    /\ restored.checkpoint = "ckpt[weights,optimizer]"
    /\ trainCalls[1].checkpoint = None

\* C4 as stated: a call with an unsupported task ends, at its first step, in
\* a not-implemented error whose message names the task value, with no
\* loader built, no model restored and neither routine called.
C4_UnsupportedTaskNamed ==
    (args["task"] \notin SupportedTasks /\ pc # "dataset") =>
        /\ pc = "raised"
        /\ err = "NotImplementedError"
        /\ \E i \in 1..Len(errMsg) : errMsg[i] = args["task"]
        /\ ~loadersBuilt
        /\ dataset = None
        /\ evalCalls = <<>>
        /\ trainCalls = <<>>

\* C9: the model handed to eval_model or train_model is the inner module of
\* the restored model when it has one, and the restored model otherwise.
C9_Unwrapped ==
    \A c \in {evalCalls[i] : i \in 1..Len(evalCalls)}
             \cup {[model |-> trainCalls[i].model, result |-> trainCalls[i].result] :
                   i \in 1..Len(trainCalls)} :
        c.model = IF Len(restored.model) > 1
                  THEN Tail(restored.model)
                  ELSE restored.model

\* C9 witness: a wrapped model was restored and the training routine got
\* its inner module.
C9_Witness ==
    /\ Len(trainCalls) = 1
    /\ restored.model = <<"DataParallel", "net">>
    /\ trainCalls[1].model = <<"net">>

\* An arguments object setup_args can return for main: every field main
\* reads is set, and an evaluation-only run has a resume path.
C10_MinimallyValid(a) ==
    /\ a["task"] \in SupportedTasks
    /\ ~(Truthy(a["eval_only"]) /\ a["resume"] = None)

\* C10 as stated: with a supported task, a minimally valid arguments object
\* and a well-formed fixture at the data path, main does not raise.
C10_ValidRunDoesNotRaise ==
    (C10_MinimallyValid(args) /\ fixtureOK) => pc # "raised"

---------------------------------------------------------------------------
(* setup_store_with_metadata (main.py lines 139-160) *)

\* Number of invocations of setup_store_with_metadata explored.
MaxInvocations == 2

\* What lines 146-148 can do: return the hexsha of HEAD, raise
\* git.exc.InvalidGitRepositoryError (no repository encloses the package
\* directory), or raise something else (a repository whose HEAD has no
\* commit yet makes repo.head.object raise ValueError).
GitOutcomes == {"hexsha", "InvalidGitRepositoryError", "ValueError"}

\* repo.head.object.hexsha: 40 hexadecimal digits.
HeadHexsha == "9fceb02d0ae598e95dc970b74767f19372d61af8"

\* robustness.__version__, the static version string of the package.
PackageVersion == "robustness.__version__"

\* line 151: args.version = version
SetVersion_Dropped(a, v) == a
SetVersion(a, v) ==
    [f \in DOMAIN a \cup {"version"} |-> IF f = "version" THEN v ELSE a[f]]

\* lines 145-150: the version for an outcome of the lookup that is handled.
ResolveVersion(outcome) ==
    IF outcome = "hexsha" THEN HeadHexsha ELSE PackageVersion

\* line 149: except git.exc.InvalidGitRepositoryError
IsCaught(outcome) == outcome = "InvalidGitRepositoryError"

\* The Python type of a value, by its literal.
TypeName(v) ==
    IF v \in {"0", "1", "5", "9", "150", "200"} THEN "int"
    ELSE IF v = "0.5" THEN "float"
    ELSE IF v = None THEN "NoneType"
    ELSE "str"

\* cox.store.schema_from_dict(d): int, str, float and bool columns keep
\* their type, every other value is stored as an object.
schema_from_dict(d) ==
    [k \in DOMAIN d |->
        IF TypeName(d[k]) \in {"int", "str", "float", "bool"}
        THEN TypeName(d[k]) ELSE "object"]

\* line 154: the store of an experiment is keyed by directory and name.
StoreKey(a) == <<a["out_dir"], a["exp_name"]>>

\* The arguments objects enumerated on entry to setup_store_with_metadata.
StoreArgs ==
    {[config_path |-> None, eval_only |-> eo, adv_eval |-> "0", out_dir |-> "out",
      exp_name |-> en, epochs |-> "150", adv_train |-> "0", eps |-> None,
      use_best |-> None, dataset |-> "cifar", resume |-> "ckpt.pt",
      resume_optimizer |-> "0", task |-> "breeds"] :
     eo \in {"0", "1"}, en \in {"exp1", "exp2"}}

InitStore ==
    /\ args \in StoreArgs
    /\ entryArgs = args
    /\ cfgFile = EmptyCfg
    /\ pc = "version"
    /\ err = None
    /\ errMsg = <<>>
    /\ applied = <<>>
    /\ IdleMain
    /\ gitOutcome \in GitOutcomes
    /\ stores = <<>>
    /\ invocations = 1
    /\ effects = <<>>

\* lines 144-151
S_Version ==
    /\ pc = "version"
    /\ IF gitOutcome = "hexsha" \/ IsCaught(gitOutcome)
       THEN /\ args' = SetVersion(args, ResolveVersion(gitOutcome))
            /\ pc' = "store"
            /\ UNCHANGED <<err, errMsg>>
       ELSE /\ Raise(gitOutcome, <<"revision lookup failed">>)
            /\ UNCHANGED args
    /\ UNCHANGED <<entryArgs, cfgFile, applied, mainVars, storeVars>>

\* line 154: store = cox.store.Store(args.out_dir, args.exp_name)
S_Store ==
    /\ pc = "store"
    /\ stores' = IF StoreKey(args) \in DOMAIN stores
                 THEN stores
                 ELSE stores @@ (StoreKey(args) :> <<>>)
    /\ effects' = Append(effects, [op |-> "Store", key |-> StoreKey(args)])
    /\ pc' = "add_table"
    /\ UNCHANGED <<argsVars, err, errMsg, mainVars, gitOutcome, invocations>>

\* lines 155-157: the schema of the argument mapping, then add_table.  On a
\* store that already has the table, add_table either refuses or opens it.
S_AddTable ==
    /\ pc = "add_table"
    /\ LET key == StoreKey(args)
           schema == schema_from_dict(args)
       IN \/ /\ "metadata" \notin DOMAIN stores[key]
             /\ stores' = [stores EXCEPT ![key] =
                             @ @@ ("metadata" :> [schema |-> schema, rows |-> <<>>])]
             /\ effects' = Append(effects,
                             [op |-> "add_table", name |-> "metadata", schema |-> schema])
             /\ pc' = "append_row"
             /\ UNCHANGED <<err, errMsg>>
          \/ /\ "metadata" \in DOMAIN stores[key]
             /\ stores' = [stores EXCEPT ![key]["metadata"].schema = schema]
             /\ effects' = Append(effects,
                             [op |-> "add_table", name |-> "metadata", schema |-> schema])
             /\ pc' = "append_row"
             /\ UNCHANGED <<err, errMsg>>
          \/ /\ "metadata" \in DOMAIN stores[key]
             /\ Raise("ValueError", <<"table exists">>)
             /\ UNCHANGED <<stores, effects>>
    /\ UNCHANGED <<argsVars, mainVars, gitOutcome, invocations>>

\* lines 158-160: store['metadata'].append_row(args_dict); return store
S_AppendRow ==
    /\ pc = "append_row"
    /\ stores' = [stores EXCEPT ![StoreKey(args)]["metadata"].rows = Append(@, args)]
    /\ effects' = Append(effects, [op |-> "append_row", name |-> "metadata", row |-> args])
    /\ pc' = "returned"
    /\ UNCHANGED <<argsVars, err, errMsg, mainVars, gitOutcome, invocations>>

\* A further invocation, on a fresh arguments object.
S_Call ==
    /\ pc \in {"returned", "raised"}
    /\ invocations < MaxInvocations
    /\ invocations' = invocations + 1
    /\ args' \in StoreArgs
    /\ entryArgs' = args'
    /\ gitOutcome' \in GitOutcomes
    /\ effects' = <<>>
    /\ pc' = "version"
    /\ err' = None
    /\ errMsg' = <<>>
    /\ UNCHANGED <<cfgFile, applied, mainVars, stores>>

NextStore ==
    \/ S_Version
    \/ S_Store
    \/ S_AddTable
    \/ S_AppendRow
    \/ S_Call

SpecStore == InitStore /\ [][NextStore]_vars

---------------------------------------------------------------------------
(* Claims about setup_store_with_metadata, checked under SpecStore *)

\* C7: an invocation that returns opened one store at (out_dir, exp_name),
\* registered one table 'metadata' and appended one row to it; the row has
\* every field of the arguments object, unchanged, and a 'version' field
\* that is a non-empty string; the schema has a column for every field of
\* the row, 'version' included; the row is the last one of the table.
C7_OneMetadataRow ==
    pc = "returned" =>
        /\ Len(effects) = 3
        /\ effects[1].op = "Store"
        /\ effects[1].key = <<entryArgs["out_dir"], entryArgs["exp_name"]>>
        /\ effects[2].op = "add_table" /\ effects[2].name = "metadata"
        /\ effects[3].op = "append_row" /\ effects[3].name = "metadata"
        /\ LET row == effects[3].row
               schema == effects[2].schema
               table == stores[effects[1].key]["metadata"]
           IN /\ DOMAIN row = DOMAIN entryArgs \cup {"version"}
              /\ \A f \in DOMAIN entryArgs : row[f] = entryArgs[f]
              /\ row["version"] \in {HeadHexsha, PackageVersion}
              /\ row["version"] # ""
              /\ DOMAIN schema = DOMAIN row
              /\ schema["version"] = "str"
              /\ table.schema = schema
              /\ Len(table.rows) >= 1
              /\ table.rows[Len(table.rows)] = row

\* C7 witness: a second invocation on the same experiment returned, its row
\* carrying the fallback version after the first row's revision hash.
C7_Witness ==
    /\ pc = "returned"
    /\ invocations = 2
    /\ Len(stores[StoreKey(args)]["metadata"].rows) = 2
    /\ stores[StoreKey(args)]["metadata"].rows[1]["version"] = HeadHexsha
    /\ stores[StoreKey(args)]["metadata"].rows[2]["version"] = PackageVersion

\* C8 as stated: whenever the revision lookup does not yield a revision,
\* the call is not ended by that failure and the version is the static
\* package version; when it yields one, the version is that hash.
C8_FallbackNeverFatal ==
    pc # "version" =>
        IF gitOutcome = "hexsha"
        THEN args["version"] = HeadHexsha
        ELSE /\ ~(pc = "raised" /\ effects = <<>>)
             /\ args["version"] = PackageVersion

---------------------------------------------------------------------------
(* Claims about setup_args, checked under SpecArgs *)

\* The arguments object after the config overlay of lines 122-123.
Overlaid ==
    IF Truthy(entryArgs["config_path"])
    THEN [f \in Fields |->
            IF entryArgs[f] # None THEN entryArgs[f]
            ELSE IF cfgFile[f] # Absent THEN cfgFile[f] ELSE None]
    ELSE entryArgs

\* C1: setup_args never returns an arguments object with eval_only true and
\* resume None; whenever the check of lines 135-136 is reached with such an
\* object, the call ends in the assertion's error.
C1_EvalOnlyNeedsResume ==
    /\ [](pc = "returned" => ~(Truthy(args["eval_only"]) /\ args["resume"] = None))
    /\ [][(pc = "check" /\ Truthy(args["eval_only"]) /\ args["resume"] = None)
            => (pc' = "raised" /\ err' = "AssertionError")]_vars

\* C1 witness: an evaluation-only call without resume path reached the check
\* and was rejected there.
C1_Witness ==
    /\ pc = "raised"
    /\ err = "AssertionError"
    /\ Truthy(args["eval_only"])
    /\ args["resume"] = None
    /\ applied # <<>>

\* C5 as stated: on return every field given on entry is unchanged, and a
\* field unset on entry has the config file's value if the file has the key,
\* and otherwise the default of its option group.
C5_Original ==
    pc = "returned" =>
        \A f \in Fields :
            args[f] =
                IF entryArgs[f] # None THEN entryArgs[f]
                ELSE IF Truthy(entryArgs["config_path"]) /\ cfgFile[f] # Absent
                     THEN cfgFile[f]
                ELSE IF f \in GroupedFields
                     THEN ArgDefault(f, args["dataset"])
                ELSE None

\* Whether setup_args hands group g to check_and_fill_args, read off the
\* arguments object it returns.
C5_GroupIsApplied(g) ==
    CASE g = "TRAINING" -> ~Truthy(args["eval_only"])
      [] g = "PGD"      -> Truthy(args["adv_train"]) \/ Truthy(args["adv_eval"])
      [] OTHER          -> TRUE

\* C5 amended: on return every field given on entry is unchanged; a field
\* unset on entry has the config file's value if a config file is used and
\* has the key with a non-null value; otherwise the default of its option
\* group if that group is applied and has a default for it; otherwise it is
\* still unset.
C5_Precedence ==
    pc = "returned" =>
        \A f \in Fields :
            args[f] =
                IF entryArgs[f] # None THEN entryArgs[f]
                ELSE IF /\ Truthy(entryArgs["config_path"])
                        /\ cfgFile[f] \notin {Absent, None}
                     THEN cfgFile[f]
                ELSE IF f \in GroupedFields /\ C5_GroupIsApplied(GroupOf(f))
                     THEN ArgDefault(f, args["dataset"])
                ELSE None

\* C5 witness: one returned object showing the three tiers: an explicit
\* value kept, a config value taken, a default filled.
C5_Witness ==
    /\ pc = "returned"
    /\ entryArgs["use_best"] = "0" /\ args["use_best"] = "0"
    /\ entryArgs["epochs"] = None /\ cfgFile["epochs"] = "9" /\ args["epochs"] = "9"
    /\ entryArgs["resume_optimizer"] = None /\ args["resume_optimizer"] = "0"
    /\ entryArgs["resume"] = "ckpt.pt" /\ cfgFile["resume"] = "cfg.pt"
    /\ args["resume"] = "ckpt.pt"

C6_Rank(g) ==
    CASE g = "CONFIG" -> 1 [] g = "TRAINING" -> 2 [] g = "PGD" -> 3
      [] g = "MODEL_LOADER" -> 4

C6_ExpectedGroups ==
    <<"CONFIG">>
    \o (IF Truthy(args["eval_only"]) THEN <<>> ELSE <<"TRAINING">>)
    \o (IF Truthy(args["adv_train"]) \/ Truthy(args["adv_eval"])
        THEN <<"PGD">> ELSE <<>>)
    \o <<"MODEL_LOADER">>

\* C6: the groups are applied in the order config, training, PGD,
\* model-loading; a returning call applied config and model-loading, the
\* training group iff eval_only (as it reads after overlay and config fill)
\* is false, the PGD group iff adv_train or adv_eval is set; a skipped
\* group's fields are as the overlay left them.
C6_GroupSelection ==
    /\ \A i, j \in 1..Len(applied) : i < j => C6_Rank(applied[i]) < C6_Rank(applied[j])
    /\ \A i \in 1..Len(applied) :
          /\ applied[i] = "TRAINING" => ~Truthy(args["eval_only"])
          /\ applied[i] = "PGD" =>
                Truthy(args["adv_train"]) \/ Truthy(args["adv_eval"])
    /\ pc = "returned" =>
          /\ applied = C6_ExpectedGroups
          /\ Truthy(args["eval_only"]) =>
                \A f \in TRAINING_ARGS : args[f] = Overlaid[f]
          /\ ~(Truthy(args["adv_train"]) \/ Truthy(args["adv_eval"])) =>
                \A f \in PGD_ARGS : args[f] = Overlaid[f]

\* C6 witness: eval_only was unset on entry and set by the config file; the
\* call returned with only config and model-loading applied, the unset
\* training and PGD fields (one of each required) left unset.
C6_Witness ==
    /\ pc = "returned"
    /\ entryArgs["eval_only"] = None
    /\ cfgFile["eval_only"] = "1"
    /\ applied = <<"CONFIG", "MODEL_LOADER">>
    /\ args["adv_train"] = None /\ args["epochs"] = None
    /\ args["eps"] = None /\ args["use_best"] = None

====
